---- MODULE Spec2Model ----
(***************************************************************************)
(* Approval workflow engine of the expense management system.              *)
(*                                                                         *)
(* The state is the content of the three tables the engine works on        *)
(* (expenses, expense_approvals, approval_workflows) plus the users table   *)
(* it reads.  A row's id is its position in the table (AUTOINCREMENT).     *)
(* Every operation opens its own connection, runs its statements in one    *)
(* transaction and commits, or rolls back when a statement raises.  Each   *)
(* statement is modelled by what the SQL text says; the storage engine may *)
(* raise at any statement, which is the input `fail` of every operation.   *)
(* approval_service.py writes its parameters as %s while database.py opens *)
(* sqlite3, which accepts only ?: on that driver every statement of the    *)
(* engine raises, the behaviour in which `fail` is the first statement.    *)
(***************************************************************************)
EXTENDS Integers, Sequences, FiniteSets, TLC

\* ---------------------------------------------------------------- bounds
MaxExpenses == 2
MaxRules == 2
MaxApprovals == 3
MaxUsers == 3
MaxConnections == 2
MaxConcurrentExpenses == 1

\* ------------------------------------------------------------ value sets
\* None / SQL NULL: no id is negative, and a percentage of 0 is not NULL.
NULL == -1
NoComment == "NULL"
NoTimestamp == "NULL"
CURRENT_TIMESTAMP == "CURRENT_TIMESTAMP"
AutoRejectComment == "Auto-rejected due to earlier rejection"

Users == 1..3
Companies == 1..2
Statuses == {"pending", "approved", "rejected"}

\* The decisions the approval pages send: the action and its comments.
Decisions == {<<"approved", "Quick approval">>, <<"rejected", "Quick rejection">>}

VARIABLES users, expenses, expense_approvals, approval_workflows, last,
          connections

vars == <<users, expenses, expense_approvals, approval_workflows, last,
          connections>>

\* ------------------------------------------------------------- helpers
SeqIndices(s) == 1..Len(s)

ApprovalsOf(rows, e) == {i \in SeqIndices(rows) : rows[i].expense_id = e}

PendingOf(rows, e) == {i \in ApprovalsOf(rows, e) : rows[i].status = "pending"}

RejectedOf(rows, e) == {i \in ApprovalsOf(rows, e) : rows[i].status = "rejected"}

ApprovedOf(rows, e) == {i \in ApprovalsOf(rows, e) : rows[i].status = "approved"}

\* The outcome of the last operation: the operation, the expense id a
\* submission got, where the operation failed ("start": no connection, or
\* the first statement raised, nothing was written; "later": a later
\* statement or the commit raised, after statements had been executed), and
\* the return value.
Called(op, expense_id, failed, ret) ==
    [op |-> op, expense_id |-> expense_id, failed |-> failed, ret |-> ret]

\* ---------------------------------------------------------- connections
\* The calls that run at the same time, each on a connection of its own
\* (get_connection opens one per call).
Connections == 1..MaxConnections

\* What an open transaction has written and not committed; `live` is false
\* when the connection has no open transaction.
NoTransaction ==
    [live |-> FALSE, expenses |-> << >>, expense_approvals |-> << >>]

\* A connection: the statement it executes next (pc), the call and its
\* arguments, the approvers a workflow creation has collected and the number
\* of rows it has inserted, its open transaction, whether a
\* process_approval call for the same expense and approver has returned True
\* while this call was running, and whether this call is an approval during
\* which an approval of another approver for the same expense has returned
\* True (a closed connection keeps this from its last call if that call
\* returned True).
Connection(pc, op, expense_id, approver_id, action, comments) ==
    [pc |-> pc, op |-> op, expense_id |-> expense_id,
     approver_id |-> approver_id, action |-> action, comments |-> comments,
     approvers |-> << >>, done |-> 0, written |-> NoTransaction,
     rival |-> FALSE, overlapped |-> FALSE]

IdleConnection == Connection("idle", "none", NULL, NULL, "none", NoComment)

\* ----------------------------------------------------------------- Init
InitUsers ==
    [u \in Users |->
        IF u = 1 THEN [role |-> "employee", company_id |-> 1, manager_id |-> 2]
        ELSE IF u = 2 THEN [role |-> "manager", company_id |-> 1, manager_id |-> 3]
        ELSE [role |-> "admin", company_id |-> 1, manager_id |-> NULL]]

Init ==
    /\ users = InitUsers
    /\ expenses = << >>
    /\ expense_approvals = << >>
    /\ approval_workflows = << >>
    /\ last = Called("init", NULL, "none", FALSE)
    /\ connections = [p \in Connections |-> IdleConnection]

\* The tables as one value, so that an operation can be applied to the
\* tables another operation of the same handler has just written.
DB == [users |-> users, expenses |-> expenses,
       expense_approvals |-> expense_approvals,
       approval_workflows |-> approval_workflows]

\* ------------------------------------------------------- create_expense
\* INSERT INTO expenses: the new row takes the next id and the default
\* status 'pending'.
InsertExpense(exps, employee_id, company_id, amount, currency, converted_amount) ==
    Append(exps, [employee_id |-> employee_id, company_id |-> company_id,
                  amount |-> amount, currency |-> currency,
                  converted_amount |-> converted_amount, status |-> "pending"])

\* The result of create_expense: the new id (None is NULL) and the table.
create_expense(db, employee_id, company_id, amount, currency, converted_amount, fail) ==
    IF fail = "connect"
    THEN [ret |-> NULL, expenses |-> db.expenses]
    ELSE IF fail \in {"execute", "commit"}
    THEN [ret |-> NULL, expenses |-> db.expenses]
    ELSE [ret |-> Len(db.expenses) + 1,
          expenses |-> InsertExpense(db.expenses, employee_id, company_id,
                                     amount, currency, converted_amount)]

\* ----------------------------------------------------- convert_currency
\* Amounts are in cents, rates in hundredths.
Currencies == {"USD", "EUR"}

\* companies.default_currency, which the session user carries.
default_currency(company_id) == "USD"

\* get_exchange_rates returned None (the request failed).
NoRates == << >>

\* round(x, 2) of x = amount * rate: to the nearest cent, a tie to the even
\* cent.  (Python rounds the binary float; the inputs of the model have no
\* tie.)
Round2(hundredths_of_cents) ==
    LET q == hundredths_of_cents \div 100
        r == hundredths_of_cents % 100
    IN  IF r > 50 \/ (r = 50 /\ q % 2 = 1) THEN q + 1 ELSE q

\* convert_currency(amount, from_currency, to_currency), where `rates` is
\* what get_exchange_rates(from_currency) returns.
convert_currencyDefaulting(amount, from_currency, to_currency, rates) ==
    IF from_currency = to_currency THEN amount
    ELSE IF rates # NoRates /\ to_currency \in DOMAIN rates
    THEN Round2(amount * rates[to_currency])
    ELSE amount

convert_currency(amount, from_currency, to_currency, rates) ==
    IF from_currency = to_currency THEN amount
    ELSE IF rates # NoRates /\ to_currency \in DOMAIN rates
    THEN Round2(amount * rates[to_currency])
    ELSE NULL

\* --------------------------------------------- create_approval_workflow
\* SELECT u.manager_id, u.id FROM expenses e JOIN users u ... WHERE e.id = e
WorkflowLookup(db, expense_id) ==
    IF expense_id \in SeqIndices(db.expenses)
       /\ db.expenses[expense_id].employee_id \in DOMAIN db.users
    THEN <<db.users[db.expenses[expense_id].employee_id].manager_id,
           db.expenses[expense_id].employee_id>>
    ELSE << >>

\* WHERE company_id = c AND is_manager_approver = FALSE
WorkflowRules(rules, company_id) ==
    {i \in SeqIndices(rules) :
        /\ rules[i].company_id = company_id
        /\ rules[i].is_manager_approver = FALSE}

\* ORDER BY sequence_order: every listing of the selected rules in which the
\* sequence_order never decreases (rules with equal sequence_order come in
\* an order the engine chooses).
OrderBySequenceUnordered(rules, selected) ==
    {ord \in [1..Cardinality(selected) -> selected] :
        /\ \A i, j \in DOMAIN ord : i # j => ord[i] # ord[j]
        /\ \A i, j \in DOMAIN ord : i < j => ord[i] < ord[j]}

OrderBySequence(rules, selected) ==
    {ord \in [1..Cardinality(selected) -> selected] :
        /\ \A i, j \in DOMAIN ord : i # j => ord[i] # ord[j]
        /\ \A i, j \in DOMAIN ord :
              i < j => rules[ord[i]].sequence_order <= rules[ord[j]].sequence_order}

\* The approvers in the order the function inserts them: the manager (if
\* manager_id is set), then one per fetched rule.
WorkflowApprovers(db, manager_id, order) ==
    (IF manager_id # NULL THEN <<manager_id>> ELSE << >>)
    \o [i \in DOMAIN order |-> db.approval_workflows[order[i]].approver_id]

\* The first k INSERT INTO expense_approvals of the call; `sequence` starts
\* at 1 and is incremented after every insert.
InsertApprovals(rows, expense_id, approvers, k) ==
    rows \o [i \in 1..k |->
                [expense_id |-> expense_id, approver_id |-> approvers[i],
                 sequence_order |-> i, status |-> "pending",
                 comments |-> NoComment, approved_at |-> NoTimestamp]]

\* except: conn.rollback() discards what the transaction wrote.
WorkflowExceptKeep(before, written) == written

WorkflowExcept(before, written) == before

WorkflowFails == {"none", "connect", "insert", "commit"}

\* The result of create_approval_workflow(company_id, expense_id): `order` is
\* the listing the rule query returned, `fail` the statement that raises and
\* `done` the number of inserts that succeeded before an insert raised.
create_approval_workflow(db, company_id, expense_id, order, fail, done) ==
    LET rows == db.expense_approvals
        result == WorkflowLookup(db, expense_id)
    IN  IF fail = "connect"
        THEN [ret |-> FALSE, expense_approvals |-> rows]
        ELSE IF result = << >>
        THEN [ret |-> FALSE, expense_approvals |-> rows]
        ELSE LET approvers == WorkflowApprovers(db, result[1], order)
                 n == Len(approvers)
             IN  IF fail = "insert"
                 THEN [ret |-> FALSE,
                       expense_approvals |->
                           WorkflowExcept(rows,
                               InsertApprovals(rows, expense_id, approvers, done))]
                 ELSE IF fail = "commit"
                 THEN [ret |-> FALSE,
                       expense_approvals |->
                           WorkflowExcept(rows,
                               InsertApprovals(rows, expense_id, approvers, n))]
                 ELSE [ret |-> TRUE,
                       expense_approvals |->
                           InsertApprovals(rows, expense_id, approvers, n)]

\* ----------------------------------------------------- process_approval
\* UPDATE expense_approvals SET status, comments, approved_at
\* WHERE expense_id = e AND approver_id = a AND status = 'pending'
UpdateApprovalRecordAnyStatus(rows, expense_id, approver_id, action, comments) ==
    [i \in SeqIndices(rows) |->
        IF /\ rows[i].expense_id = expense_id
           /\ rows[i].approver_id = approver_id
        THEN [rows[i] EXCEPT !.status = action, !.comments = comments,
                             !.approved_at = CURRENT_TIMESTAMP]
        ELSE rows[i]]

UpdateApprovalRecord(rows, expense_id, approver_id, action, comments) ==
    [i \in SeqIndices(rows) |->
        IF /\ rows[i].expense_id = expense_id
           /\ rows[i].approver_id = approver_id
           /\ rows[i].status = "pending"
        THEN [rows[i] EXCEPT !.status = action, !.comments = comments,
                             !.approved_at = CURRENT_TIMESTAMP]
        ELSE rows[i]]

\* UPDATE expenses SET status = s WHERE id = e
UpdateExpenseStatusNoRow(exps, expense_id, status) == exps

UpdateExpenseStatus(exps, expense_id, status) ==
    [i \in SeqIndices(exps) |->
        IF i = expense_id THEN [exps[i] EXCEPT !.status = status] ELSE exps[i]]

\* UPDATE expense_approvals SET status = 'rejected', comments = 'Auto-...'
\* WHERE expense_id = e AND status = 'pending' AND approver_id != a
RejectPendingAnyStatus(rows, expense_id, approver_id) ==
    [i \in SeqIndices(rows) |->
        IF /\ rows[i].expense_id = expense_id
           /\ rows[i].approver_id # approver_id
        THEN [rows[i] EXCEPT !.status = "rejected",
                             !.comments = AutoRejectComment]
        ELSE rows[i]]

RejectPending(rows, expense_id, approver_id) ==
    [i \in SeqIndices(rows) |->
        IF /\ rows[i].expense_id = expense_id
           /\ rows[i].status = "pending"
           /\ rows[i].approver_id # approver_id
        THEN [rows[i] EXCEPT !.status = "rejected",
                             !.comments = AutoRejectComment]
        ELSE rows[i]]

\* SELECT COUNT(*) FROM expense_approvals WHERE expense_id = e AND status = 'pending'
PendingCountAllExpenses(rows, expense_id) ==
    Cardinality({i \in SeqIndices(rows) : rows[i].status = "pending"})

PendingCountCommitted(rows, expense_id) ==
    Cardinality(PendingOf(expense_approvals, expense_id))

PendingCount(rows, expense_id) == Cardinality(PendingOf(rows, expense_id))

\* except: conn.rollback() discards what the transaction wrote.
ProcessExceptKeep(before, written) == written

ProcessExcept(before, written) == before

ProcessFails == {"none", "connect", "update", "status", "cascade", "commit"}

\* The tables after the statements of process_approval that run before the
\* statement named by `upto` ("commit": all of them).
ProcessWritten(db, expense_id, approver_id, action, comments, upto) ==
    LET before == [expenses |-> db.expenses,
                   expense_approvals |-> db.expense_approvals]
        updated == [before EXCEPT !.expense_approvals =
                       UpdateApprovalRecord(db.expense_approvals, expense_id,
                                            approver_id, action, comments)]
    IN  IF upto = "update" THEN before
        ELSE IF action = "rejected"
        THEN LET marked == [updated EXCEPT !.expenses =
                               UpdateExpenseStatus(db.expenses, expense_id, "rejected")]
             IN  IF upto = "status" THEN updated
                 ELSE IF upto = "cascade" THEN marked
                 ELSE [marked EXCEPT !.expense_approvals =
                          RejectPending(updated.expense_approvals, expense_id,
                                        approver_id)]
        ELSE IF action = "approved"
        THEN IF PendingCount(updated.expense_approvals, expense_id) = 0
             THEN IF upto = "status" THEN updated
                  ELSE [updated EXCEPT !.expenses =
                           UpdateExpenseStatus(db.expenses, expense_id, "approved")]
             ELSE updated
        ELSE updated

\* The statements process_approval executes for this action and state.
ProcessStatements(db, expense_id, approver_id, action, comments) ==
    {"update", "commit"}
    \cup (IF action = "rejected" THEN {"status", "cascade"} ELSE {})
    \cup (IF /\ action = "approved"
              /\ PendingCount(UpdateApprovalRecord(db.expense_approvals, expense_id,
                                   approver_id, action, comments), expense_id) = 0
           THEN {"status"} ELSE {})

\* The result of process_approval(expense_id, approver_id, action, comments).
process_approval(db, expense_id, approver_id, action, comments, fail) ==
    LET before == [expenses |-> db.expenses,
                   expense_approvals |-> db.expense_approvals]
    IN  IF fail = "connect"
        THEN [ret |-> FALSE, db |-> before]
        ELSE IF fail = "none"
        THEN [ret |-> TRUE,
              db |-> ProcessWritten(db, expense_id, approver_id, action,
                                    comments, "commit")]
        ELSE [ret |-> FALSE,
              db |-> ProcessExcept(before,
                         ProcessWritten(db, expense_id, approver_id, action,
                                        comments, fail))]

\* ------------------------------------------------- create_approval_rule
\* INSERT INTO approval_workflows
InsertRule(rules, rule) == Append(rules, rule)

RuleFails == {"none", "connect", "execute"}

create_approval_rule(db, rule, fail) ==
    IF fail = "none"
    THEN [ret |-> TRUE, approval_workflows |-> InsertRule(db.approval_workflows, rule)]
    ELSE [ret |-> FALSE, approval_workflows |-> db.approval_workflows]

\* One INSERT INTO expense_approvals of the loop.
InsertApproval(rows, expense_id, approver_id, sequence) ==
    Append(rows, [expense_id |-> expense_id, approver_id |-> approver_id,
                  sequence_order |-> sequence, status |-> "pending",
                  comments |-> NoComment, approved_at |-> NoTimestamp])

\* ------------------------------------ create_user, update_user_manager
Roles == {"admin", "manager", "employee"}

\* INSERT INTO users (..., role, company_id, manager_id)
InsertUser(us, role, company_id, manager_id) ==
    Append(us, [role |-> role, company_id |-> company_id,
                manager_id |-> manager_id])

UserFails == {"none", "connect", "execute"}

\* The result of create_user: the new id (None is NULL) and the table.
create_user(db, role, company_id, manager_id, fail) ==
    IF fail = "none"
    THEN [ret |-> Len(db.users) + 1,
          users |-> InsertUser(db.users, role, company_id, manager_id)]
    ELSE [ret |-> NULL, users |-> db.users]

\* UPDATE users SET manager_id = m WHERE id = u
UpdateManager(us, user_id, manager_id) ==
    [i \in DOMAIN us |->
        IF i = user_id THEN [us[i] EXCEPT !.manager_id = manager_id] ELSE us[i]]

\* The result of update_user_manager(user_id, manager_id).
update_user_manager(db, user_id, manager_id, fail) ==
    IF fail = "none"
    THEN [ret |-> TRUE, users |-> UpdateManager(db.users, user_id, manager_id)]
    ELSE [ret |-> FALSE, users |-> db.users]

\* ------------------------------------------- check_conditional_approval
\* WHERE aw.company_id = c
\*   AND (aw.percentage_rule IS NOT NULL OR aw.specific_approver_rule = TRUE)
ConditionalWorkflowsAnyCompany(rules, company_id) ==
    {i \in SeqIndices(rules) :
        \/ rules[i].percentage_rule # NULL
        \/ rules[i].specific_approver_rule = TRUE}

ConditionalWorkflows(rules, company_id) ==
    {i \in SeqIndices(rules) :
        /\ rules[i].company_id = company_id
        /\ \/ rules[i].percentage_rule # NULL
           \/ rules[i].specific_approver_rule = TRUE}

\* SELECT COUNT(*) ... WHERE expense_id = e AND approver_id = a
\*   AND status = 'approved'
ApprovedCountOf(rows, expense_id, approver_id) ==
    Cardinality({i \in ApprovedOf(rows, expense_id) :
                    rows[i].approver_id = approver_id})

\* `if percentage_rule:` is false for None and for 0.
Truthy(percentage_rule) == percentage_rule # NULL /\ percentage_rule # 0

\* (approved_count / total_approvers) * 100 >= percentage_rule.  The code
\* computes the left side in floating point; for the row counts of this
\* model the floating-point comparison and the exact one agree (they first
\* differ at 29 approved of 50 rows against 58).
ApprovalPercentageReached(approved_count, total_approvers, percentage_rule) ==
    approved_count * 100 >= percentage_rule * total_approvers

\* One pass of the loop body for the fetched rule w: does it return True?
WorkflowSatisfiedPercentageOnly(db, expense_id, w) ==
    /\ Truthy(w.percentage_rule)
    /\ LET total_approvers ==
               Cardinality(ApprovalsOf(db.expense_approvals, expense_id))
           approved_count ==
               Cardinality(ApprovedOf(db.expense_approvals, expense_id))
       IN  /\ total_approvers > 0
           /\ ApprovalPercentageReached(approved_count, total_approvers,
                                        w.percentage_rule)

WorkflowSatisfied(db, expense_id, w) ==
    \/ /\ w.specific_approver_rule
       /\ ApprovedCountOf(db.expense_approvals, expense_id, w.approver_id) > 0
    \/ /\ Truthy(w.percentage_rule)
       /\ LET total_approvers ==
                  Cardinality(ApprovalsOf(db.expense_approvals, expense_id))
              approved_count ==
                  Cardinality(ApprovedOf(db.expense_approvals, expense_id))
          IN  /\ total_approvers > 0
              /\ ApprovalPercentageReached(approved_count, total_approvers,
                                           w.percentage_rule)

CheckFails == {"none", "connect", "execute"}

\* The result of check_conditional_approval(expense_id, company_id): True as
\* soon as one fetched rule is satisfied, False after the loop, and False
\* when the connection or a statement fails.
check_conditional_approval(db, expense_id, company_id, fail) ==
    IF fail # "none" THEN FALSE
    ELSE \E i \in ConditionalWorkflows(db.approval_workflows, company_id) :
            WorkflowSatisfied(db, expense_id, db.approval_workflows[i])

\* -------------------------------------------------------------- actions
ExpenseFails == {"none", "connect", "execute"}

\* The users who submit: an employee with a manager, and a user without one.
Submitters == {1, 3}

\* The inputs of a create_approval_workflow call in the tables db: the
\* listing its rule query returns, the statement that raises, and the
\* number of inserts done before an insert raises.
WorkflowInputs(db, company_id, expense_id) ==
    LET result == WorkflowLookup(db, expense_id)
        orders == OrderBySequence(db.approval_workflows,
                      WorkflowRules(db.approval_workflows, company_id))
    IN  {in \in [order : orders, fail : WorkflowFails, done : 0..MaxApprovals] :
            LET n == IF result = << >> THEN 0
                     ELSE Len(WorkflowApprovers(db, result[1], in.order))
            IN  /\ Len(db.expense_approvals) + n <= MaxApprovals
                /\ IF in.fail = "insert" /\ result # << >>
                   THEN in.done < n
                   ELSE in.done = 0
                /\ in.fail \in {"insert", "commit"} => result # << >>}

\* Where a create_approval_workflow call failed.
WorkflowFailed(in) ==
    IF in.fail = "none" THEN "none"
    ELSE IF in.fail = "connect" \/ (in.fail = "insert" /\ in.done = 0) THEN "start"
    ELSE "later"

\* Where a process_approval call failed.
ProcessFailed(fail) ==
    IF fail = "none" THEN "none"
    ELSE IF fail \in {"connect", "update"} THEN "start"
    ELSE "later"

\* The submission form: the amount is converted when the currency is not
\* the company's; if the conversion gives None the form returns; otherwise
\* create_expense, then, if it returned an id, create_approval_workflow for
\* the user's company.
SubmitExpenseForm(employee_id, amount, currency, rates, failE) ==
    LET company_id == users[employee_id].company_id
        converted_amount ==
            IF currency # default_currency(company_id)
            THEN convert_currency(amount, currency,
                                  default_currency(company_id), rates)
            ELSE amount
        created == create_expense(DB, employee_id, company_id, amount, currency,
                                  converted_amount, failE)
    IN  /\ Len(expenses) < MaxExpenses
        /\ IF converted_amount = NULL
           THEN /\ last' = Called("submit_expense", NULL, "conversion", FALSE)
                /\ UNCHANGED <<users, expenses, expense_approvals,
                               approval_workflows, connections>>
           ELSE IF created.ret = NULL
           THEN /\ last' = Called("submit_expense", NULL, "start", FALSE)
                /\ UNCHANGED <<users, expenses, expense_approvals,
                               approval_workflows, connections>>
           ELSE LET db1 == [DB EXCEPT !.expenses = created.expenses]
                IN  \E in \in WorkflowInputs(db1, company_id, created.ret) :
                        LET wf == create_approval_workflow(db1, company_id,
                                      created.ret, in.order, in.fail, in.done)
                        IN  /\ expenses' = created.expenses
                            /\ expense_approvals' = wf.expense_approvals
                            /\ last' = Called("submit_expense", created.ret,
                                              WorkflowFailed(in), wf.ret)
                            /\ UNCHANGED <<users, approval_workflows, connections>>

\* A submission of 1.00 in the company's currency.
SubmitExpense(employee_id, failE) ==
    SubmitExpenseForm(employee_id, 100,
                      default_currency(users[employee_id].company_id),
                      NoRates, failE)

\* The amounts (0.01 and 2.50) and the answers of the rate service (no
\* answer, an answer without the company's currency, a rate of 0.90) of the
\* specification of the submission form.
Amounts == {1, 250}

RateTables == {NoRates, [c \in {"GBP"} |-> 80], [c \in {"USD"} |-> 90]}

\* An approver's decision from the approval pages.
ProcessApproval(expense_id, approver_id, action, comments, fail) ==
    /\ users[approver_id].role \in {"manager", "admin"}
    /\ fail \in {"none", "connect"}
            \cup ProcessStatements(DB, expense_id, approver_id, action, comments)
    /\ LET r == process_approval(DB, expense_id, approver_id, action, comments, fail)
       IN  /\ expenses' = r.db.expenses
           /\ expense_approvals' = r.db.expense_approvals
           /\ last' = Called("process_approval", NULL, ProcessFailed(fail), r.ret)
           /\ UNCHANGED <<users, approval_workflows, connections>>

\* The rules the admin page sends in this specification: plain steps of
\* company 1 (approver 2 at position 2, approver 3 at position 1), a
\* manager-approver rule of company 1 and a plain step of company 2.
PlainRule(company_id, approver_id, sequence_order, is_manager_approver) ==
    [company_id |-> company_id, approver_id |-> approver_id,
     sequence_order |-> sequence_order,
     is_manager_approver |-> is_manager_approver,
     percentage_rule |-> NULL, specific_approver_rule |-> FALSE]

PlainRules ==
    {PlainRule(1, 2, 2, FALSE), PlainRule(1, 3, 1, FALSE),
     PlainRule(1, 3, 1, TRUE), PlainRule(2, 3, 1, FALSE)}

CreateApprovalRule(rule, fail) ==
    /\ Len(approval_workflows) < MaxRules
    /\ LET r == create_approval_rule(DB, rule, fail)
       IN  /\ approval_workflows' = r.approval_workflows
           /\ last' = Called("create_approval_rule", NULL,
                             IF fail = "none" THEN "none" ELSE "start", r.ret)
           /\ UNCHANGED <<users, expenses, expense_approvals, connections>>

\* The rules of the specification of the conditional evaluator: of company
\* 1 a specific-approver step of approver 3, a 50 % step of approver 3 and a
\* manager-approver rule with percentage 0; of company 2 a 50 % step.
ConditionalRule(company_id, approver_id, sequence_order, is_manager_approver, percentage_rule, specific_approver_rule) ==
    [company_id |-> company_id, approver_id |-> approver_id,
     sequence_order |-> sequence_order,
     is_manager_approver |-> is_manager_approver,
     percentage_rule |-> percentage_rule,
     specific_approver_rule |-> specific_approver_rule]

ConditionalRules ==
    {ConditionalRule(1, 3, 1, FALSE, NULL, TRUE),
     ConditionalRule(1, 3, 1, FALSE, 50, FALSE),
     ConditionalRule(1, 2, 2, TRUE, 0, FALSE),
     ConditionalRule(2, 3, 1, FALSE, 50, FALSE)}

\* A call of the evaluator; it has no caller in the repository, so the
\* arguments are any expense id and any company.
CheckConditionalApproval(expense_id, company_id, fail) ==
    /\ last' = Called("check_conditional_approval", expense_id,
                      IF fail = "none" THEN "none" ELSE "start",
                      check_conditional_approval(DB, expense_id, company_id, fail))
    /\ UNCHANGED <<users, expenses, expense_approvals, approval_workflows,
                   connections>>

Next ==
    \/ \E u \in Submitters, f \in ExpenseFails : SubmitExpense(u, f)
    \/ \E e \in 1..MaxExpenses, a \in Users, d \in Decisions, f \in ProcessFails :
          ProcessApproval(e, a, d[1], d[2], f)
    \/ \E rule \in PlainRules, f \in RuleFails : CreateApprovalRule(rule, f)

Spec == Init /\ [][Next]_vars

NextConditional ==
    \/ \E u \in Submitters, f \in ExpenseFails : SubmitExpense(u, f)
    \/ \E e \in 1..MaxExpenses, a \in Users, d \in Decisions, f \in ProcessFails :
          ProcessApproval(e, a, d[1], d[2], f)
    \/ \E rule \in ConditionalRules, f \in RuleFails : CreateApprovalRule(rule, f)
    \/ \E e \in 1..MaxExpenses, c \in Companies, f \in CheckFails :
          CheckConditionalApproval(e, c, f)

SpecConditional == Init /\ [][NextConditional]_vars

\* The database after init_database: no row in any table.
InitEmpty ==
    /\ users = << >>
    /\ expenses = << >>
    /\ expense_approvals = << >>
    /\ approval_workflows = << >>
    /\ last = Called("init", NULL, "none", FALSE)
    /\ connections = [p \in Connections |-> IdleConnection]

\* The manager ids a caller can pass: None or any id.
ManagerIds == {NULL} \cup (1..MaxUsers)

CreateUser(role, company_id, manager_id, fail) ==
    /\ Len(users) < MaxUsers
    /\ LET r == create_user(DB, role, company_id, manager_id, fail)
       IN  /\ users' = r.users
           /\ last' = Called("create_user", NULL,
                             IF fail = "none" THEN "none" ELSE "start",
                             r.ret # NULL)
           /\ UNCHANGED <<expenses, expense_approvals, approval_workflows,
                       connections>>

UpdateUserManager(user_id, manager_id, fail) ==
    LET r == update_user_manager(DB, user_id, manager_id, fail)
    IN  /\ users' = r.users
        /\ last' = Called("update_user_manager", NULL,
                          IF fail = "none" THEN "none" ELSE "start", r.ret)
        /\ UNCHANGED <<expenses, expense_approvals, approval_workflows,
                       connections>>

NextUsers ==
    \/ \E role \in Roles, m \in ManagerIds, f \in UserFails :
          CreateUser(role, 1, m, f)
    \/ \E u \in 1..MaxUsers, m \in ManagerIds, f \in UserFails :
          UpdateUserManager(u, m, f)

SpecUsers == InitEmpty /\ [][NextUsers]_vars

\* A create_approval_workflow call of its own, for any company and any
\* expense id (the form and the script call it once, after create_expense).
CreateApprovalWorkflow(company_id, expense_id) ==
    \E in \in WorkflowInputs(DB, company_id, expense_id) :
        LET wf == create_approval_workflow(DB, company_id, expense_id,
                                           in.order, in.fail, in.done)
        IN  /\ expense_approvals' = wf.expense_approvals
            /\ last' = Called("create_approval_workflow", expense_id,
                              WorkflowFailed(in), wf.ret)
            /\ UNCHANGED <<users, expenses, approval_workflows, connections>>

NextBuilder ==
    \/ \E u \in Submitters, f \in ExpenseFails : SubmitExpense(u, f)
    \/ \E rule \in PlainRules, f \in RuleFails : CreateApprovalRule(rule, f)
    \/ \E c \in Companies, e \in 1..MaxExpenses : CreateApprovalWorkflow(c, e)

SpecBuilder == Init /\ [][NextBuilder]_vars

\* ------------------------------------------------ calls that overlap
\* sqlite3 with the default isolation_level: the first INSERT or UPDATE of a
\* call begins a transaction and takes the database's write lock, which the
\* connection holds until commit or rollback; a statement that needs the
\* lock while another connection holds it waits and, after the timeout,
\* raises; a SELECT of another connection reads what has been committed.
Finished(p) == connections[p].pc = "idle"

\* The connections are interchangeable: a call takes the first free one.
FirstFree(p) ==
    /\ Finished(p)
    /\ \A q \in Connections : q < p => ~Finished(q)

LockFree(p) ==
    \A q \in Connections \ {p} : ~connections[q].written.live

Committed ==
    [live |-> TRUE, expenses |-> expenses,
     expense_approvals |-> expense_approvals]

\* The tables a statement of connection p works on.
View(p) ==
    IF connections[p].written.live THEN connections[p].written ELSE Committed

\* The tables a SELECT outside any transaction reads while `written` is the
\* uncommitted work of another connection.
ReadUncommitted(committed, written) ==
    IF written.live THEN written ELSE committed

ReadCommitted(committed, written) == committed

\* The approval rows a reader sees.
ReaderRows ==
    LET writers == {q \in Connections : connections[q].written.live}
    IN  IF writers = {} THEN expense_approvals
        ELSE ReadCommitted(Committed,
                 connections[CHOOSE q \in writers : TRUE].written).expense_approvals

\* A call begins on connection p.
Begin(p, conn) == [connections EXCEPT ![p] = conn]

\* The call of connection p returns ret: the connection is closed, and the
\* process_approval calls still running for the same expense and approver
\* have a rival that returned True; the approvals still running for the
\* same expense and another approver have overlapped with an approval that
\* returned True.
Return(p, ret) ==
    [q \in Connections |->
        IF q = p
        THEN [IdleConnection EXCEPT
                 !.overlapped = connections[p].overlapped /\ ret = TRUE]
        ELSE IF /\ ret = TRUE
                /\ connections[p].op = "process_approval"
                /\ connections[q].op = "process_approval"
                /\ ~Finished(q)
                /\ connections[q].expense_id = connections[p].expense_id
        THEN IF connections[q].approver_id = connections[p].approver_id
             THEN [connections[q] EXCEPT !.rival = TRUE]
             ELSE IF /\ connections[p].action = "approved"
                     /\ connections[q].action = "approved"
             THEN [connections[q] EXCEPT !.overlapped = TRUE]
             ELSE connections[q]
        ELSE connections[q]]

\* process_approval begins: get_connection, conn.cursor().
BeginProcessApproval(p, expense_id, approver_id, action, comments) ==
    /\ FirstFree(p)
    /\ users[approver_id].role \in {"manager", "admin"}
    /\ connections' =
          Begin(p, Connection("update", "process_approval", expense_id,
                              approver_id, action, comments))
    /\ UNCHANGED <<users, expenses, expense_approvals, approval_workflows, last>>

\* The next statement of the process_approval call on connection p.
ProcessApprovalStatement(p) ==
    LET c == connections[p]
        v == View(p)
    IN  /\ c.op = "process_approval"
        /\ \/ /\ c.pc = "update"
              /\ LockFree(p)
              /\ connections' =
                    [connections EXCEPT
                       ![p].written = [v EXCEPT !.expense_approvals =
                           UpdateApprovalRecord(v.expense_approvals, c.expense_id,
                               c.approver_id, c.action, c.comments)],
                       ![p].pc = IF c.action = "rejected" THEN "status"
                                 ELSE IF c.action = "approved" THEN "count"
                                 ELSE "commit"]
           \/ /\ c.pc = "status"
              /\ connections' =
                    [connections EXCEPT
                       ![p].written = [v EXCEPT !.expenses =
                           UpdateExpenseStatus(v.expenses, c.expense_id, c.action)],
                       ![p].pc = IF c.action = "rejected" THEN "cascade"
                                 ELSE "commit"]
           \/ /\ c.pc = "cascade"
              /\ connections' =
                    [connections EXCEPT
                       ![p].written = [v EXCEPT !.expense_approvals =
                           RejectPending(v.expense_approvals, c.expense_id,
                                         c.approver_id)],
                       ![p].pc = "commit"]
           \/ /\ c.pc = "count"
              /\ connections' =
                    [connections EXCEPT
                       ![p].pc = IF PendingCount(v.expense_approvals,
                                                 c.expense_id) = 0
                                 THEN "status" ELSE "commit"]
        /\ UNCHANGED <<users, expenses, expense_approvals, approval_workflows, last>>

\* conn.commit() of connection p: what the transaction wrote becomes the
\* content of the tables, and the call returns True.
Commit(p) ==
    LET c == connections[p]
    IN  /\ c.pc = "commit"
        /\ expenses' = View(p).expenses
        /\ expense_approvals' = View(p).expense_approvals
        /\ connections' = Return(p, TRUE)
        /\ last' = Called(c.op, c.expense_id, "none", TRUE)
        /\ UNCHANGED <<users, approval_workflows>>

\* The statement connection p executes raises (the lock timeout among the
\* causes): conn.rollback(), and the call returns False.
Raise(p) ==
    LET c == connections[p]
    IN  /\ ~Finished(p)
        /\ connections' = Return(p, FALSE)
        /\ last' = Called(c.op, c.expense_id,
                          IF c.written.live THEN "later" ELSE "start", FALSE)
        /\ UNCHANGED <<users, expenses, expense_approvals, approval_workflows>>

\* The submission form on connection p: create_expense (one INSERT and its
\* commit), then create_approval_workflow begins.
BeginSubmitExpense(p, employee_id) ==
    LET company_id == users[employee_id].company_id
        created == create_expense(DB, employee_id, company_id, 100,
                       default_currency(company_id), 100, "none")
    IN  /\ FirstFree(p)
        /\ LockFree(p)
        /\ Len(expenses) < MaxConcurrentExpenses
        /\ expenses' = created.expenses
        /\ connections' =
              Begin(p, Connection("lookup", "create_approval_workflow",
                                  created.ret, NULL, "none", NoComment))
        /\ UNCHANGED <<users, expense_approvals, approval_workflows, last>>

\* The next statement of the create_approval_workflow call on connection p:
\* the lookup of the employee's manager, the insert of the manager's row,
\* the rule query, and one insert per fetched rule.
WorkflowStatement(p) ==
    LET c == connections[p]
        v == View(p)
        company_id == expenses[c.expense_id].company_id
    IN  /\ c.op = "create_approval_workflow"
        /\ \/ /\ c.pc = "lookup"
              /\ LET result == WorkflowLookup(DB, c.expense_id)
                 IN  connections' =
                        [connections EXCEPT
                           ![p].approvers =
                               IF result # << >> /\ result[1] # NULL
                               THEN <<result[1]>> ELSE << >>,
                           ![p].pc =
                               IF result = << >> THEN "return"
                               ELSE IF result[1] # NULL THEN "insert_manager"
                               ELSE "rules"]
           \/ /\ c.pc = "insert_manager"
              /\ LockFree(p)
              /\ Len(v.expense_approvals) < MaxApprovals
              /\ connections' =
                    [connections EXCEPT
                       ![p].written = [v EXCEPT !.expense_approvals =
                           InsertApproval(v.expense_approvals, c.expense_id,
                                          c.approvers[1], 1)],
                       ![p].done = 1,
                       ![p].pc = "rules"]
           \/ /\ c.pc = "rules"
              /\ \E order \in OrderBySequence(approval_workflows,
                                  WorkflowRules(approval_workflows, company_id)) :
                    /\ Len(v.expense_approvals) + Len(order) <= MaxApprovals
                    /\ connections' =
                          [connections EXCEPT
                             ![p].approvers =
                                 c.approvers \o
                                 [i \in DOMAIN order |->
                                     approval_workflows[order[i]].approver_id],
                             ![p].pc = IF Len(order) = 0 THEN "commit"
                                       ELSE "insert"]
           \/ /\ c.pc = "insert"
              /\ LockFree(p)
              /\ connections' =
                    [connections EXCEPT
                       ![p].written = [v EXCEPT !.expense_approvals =
                           InsertApproval(v.expense_approvals, c.expense_id,
                                          c.approvers[c.done + 1], c.done + 1)],
                       ![p].done = c.done + 1,
                       ![p].pc = IF c.done + 1 = Len(c.approvers) THEN "commit"
                                 ELSE "insert"]
        /\ UNCHANGED <<users, expenses, expense_approvals, approval_workflows, last>>

\* get_approval_history(expense_id): the number of rows it returns.
GetApprovalHistory(expense_id) ==
    /\ \E p \in Connections : ~Finished(p)
    /\ last' = Called("get_approval_history", expense_id, "none",
                      Cardinality(ApprovalsOf(ReaderRows, expense_id)))
    /\ UNCHANGED <<users, expenses, expense_approvals, approval_workflows,
                   connections>>

\* The rule the admin page sends in this specification.
StepRules == {PlainRule(1, 3, 1, FALSE)}

\* create_approval_rule, whose INSERT needs the write lock.
CreateApprovalRuleUnlocked(rule) ==
    /\ LockFree(NULL)
    /\ CreateApprovalRule(rule, "none")

NextConcurrent ==
    \/ \E p \in Connections, e \in 1..MaxConcurrentExpenses, a \in Users,
          d \in Decisions :
          BeginProcessApproval(p, e, a, d[1], d[2])
    \/ \E p \in Connections : ProcessApprovalStatement(p)
    \/ \E p \in Connections, u \in Submitters : BeginSubmitExpense(p, u)
    \/ \E p \in Connections : WorkflowStatement(p)
    \/ \E p \in Connections : Commit(p)
    \/ \E p \in Connections : Raise(p)
    \/ \E e \in 1..MaxConcurrentExpenses : GetApprovalHistory(e)
    \/ \E rule \in StepRules : CreateApprovalRuleUnlocked(rule)

SpecConcurrent == Init /\ [][NextConcurrent]_vars

NextSubmission ==
    \E u \in Submitters, amount \in Amounts, currency \in Currencies,
       rates \in RateTables, f \in ExpenseFails :
       SubmitExpenseForm(u, amount, currency, rates, f)

SpecSubmission == Init /\ [][NextSubmission]_vars

\* The percentages a caller of create_approval_rule can pass: None, the
\* ends and the middle of 0..100, and values outside it.
Percentages == {NULL, 0, 50, 100, 101, 0 - 5}

\* The calls of the specification of the rule store: a step of approver 2
\* or 3 of company 1 with any of the percentages.
PercentageRules ==
    {ConditionalRule(1, a, 1, FALSE, p, FALSE) : a \in {2, 3}, p \in Percentages}

NextRules ==
    \E rule \in PercentageRules, f \in RuleFails : CreateApprovalRule(rule, f)

SpecRules == Init /\ [][NextRules]_vars

\* ---------------------------------------------------- get_next_approver
\* WHERE expense_id = e AND status = 'pending' ORDER BY sequence_order
\* LIMIT 1: the rows the query can return (rows with equal sequence_order
\* come in an order the engine chooses).
FirstPendingAnyOrder(rows, expense_id) == PendingOf(rows, expense_id)

FirstPending(rows, expense_id) ==
    {i \in PendingOf(rows, expense_id) :
        \A j \in PendingOf(rows, expense_id) :
            rows[i].sequence_order <= rows[j].sequence_order}

NextApproverFails == {"none", "connect", "execute"}

\* The values get_next_approver(expense_id) can return: result[0] of the
\* fetched row, None when no row is fetched, and None when the connection
\* or the statement fails.
get_next_approver(db, expense_id, fail) ==
    IF fail # "none" THEN {NULL}
    ELSE IF FirstPending(db.expense_approvals, expense_id) = {} THEN {NULL}
    ELSE {db.expense_approvals[i].approver_id :
             i \in FirstPending(db.expense_approvals, expense_id)}

\* A call of get_next_approver; it has no caller in the repository, so the
\* argument is any expense id.
GetNextApprover(expense_id, fail) ==
    /\ \E ret \in get_next_approver(DB, expense_id, fail) :
          last' = Called("get_next_approver", expense_id,
                         IF fail = "none" THEN "none" ELSE "start", ret)
    /\ UNCHANGED <<users, expenses, expense_approvals, approval_workflows,
                   connections>>

\* The decisions of this specification complete or fail at the connection.
NextApprover ==
    \/ \E u \in Submitters, f \in ExpenseFails : SubmitExpense(u, f)
    \/ \E e \in 1..MaxExpenses, a \in Users, d \in Decisions,
          f \in {"none", "connect"} :
          ProcessApproval(e, a, d[1], d[2], f)
    \/ \E rule \in PlainRules, f \in RuleFails : CreateApprovalRule(rule, f)
    \/ \E e \in 1..MaxExpenses, f \in NextApproverFails : GetNextApprover(e, f)

SpecNextApprover == Init /\ [][NextApprover]_vars

\* ------------------------------------------------ approvers who decide
\* A decision that completes, made by an approver who holds a pending row
\* of the expense.
Decide(expense_id, approver_id) ==
    /\ \E i \in PendingOf(expense_approvals, expense_id) :
          expense_approvals[i].approver_id = approver_id
    /\ \E d \in Decisions :
          ProcessApproval(expense_id, approver_id, d[1], d[2], "none")

\* Every approver who holds a pending row eventually decides it.
ApproversDecide ==
    \A e \in 1..MaxExpenses, a \in Users : WF_vars(Decide(e, a))

SpecFair == Init /\ [][Next]_vars /\ ApproversDecide

TypeOK ==
    /\ Len(expenses) <= MaxExpenses
    /\ Len(approval_workflows) <= MaxRules
    /\ Len(expense_approvals) <= MaxApprovals
    /\ \A i \in SeqIndices(expenses) : expenses[i].status \in Statuses
    /\ \A i \in SeqIndices(expense_approvals) :
          expense_approvals[i].status \in Statuses

\* ------------------------------------------------------------ properties
Approvers == {u \in Users : InitUsers[u].role \in {"manager", "admin"}}

ExpenseIds == 1..MaxExpenses

\* The rows of (expense, approver) that are still pending.
PendingFor(rows, e, a) == {i \in PendingOf(rows, e) : rows[i].approver_id = a}

\* The approver has decided the expense by a call of their own.
DecidedBy(rows, e, a) ==
    /\ PendingFor(rows, e, a) = {}
    /\ \E i \in ApprovalsOf(rows, e) :
          /\ rows[i].approver_id = a
          /\ rows[i].comments \in {d[2] : d \in Decisions}

C5_CascadeRejection ==
    [][(last'.op = "process_approval" /\ last'.ret = TRUE) =>
       \A e \in ExpenseIds, a \in Approvers, d \in Decisions :
          (/\ d[1] = "rejected"
           /\ PendingFor(expense_approvals, e, a) # {}
           /\ ProcessApproval(e, a, d[1], d[2], "none"))
          => /\ expenses'[e].status = "rejected"
             /\ PendingOf(expense_approvals', e) = {}
             /\ \A i \in ApprovalsOf(expense_approvals, e) :
                   IF expense_approvals[i].status = "pending"
                   THEN /\ expense_approvals'[i].status = "rejected"
                        /\ expense_approvals'[i].comments =
                             IF expense_approvals[i].approver_id = a
                             THEN d[2] ELSE AutoRejectComment
                   ELSE /\ expense_approvals'[i].status = expense_approvals[i].status
                        /\ expense_approvals'[i].comments =
                             expense_approvals[i].comments]_vars

\* An expense with rows 1, 2, 3 pending, where the approver of row 2
\* rejected: rows 1 and 3 carry the auto-rejection comment.
C5_Witness ==
    /\ last.op = "process_approval"
    /\ last.ret = TRUE
    /\ \E e \in SeqIndices(expenses) :
          /\ expenses[e].status = "rejected"
          /\ \E i, j, k \in ApprovalsOf(expense_approvals, e) :
                /\ expense_approvals[i].sequence_order = 1
                /\ expense_approvals[i].status = "rejected"
                /\ expense_approvals[i].comments = AutoRejectComment
                /\ expense_approvals[j].sequence_order = 2
                /\ expense_approvals[j].status = "rejected"
                /\ expense_approvals[j].comments = "Quick rejection"
                /\ expense_approvals[k].sequence_order = 3
                /\ expense_approvals[k].status = "rejected"
                /\ expense_approvals[k].comments = AutoRejectComment

DistinctApprovers(rows, e) ==
    \A i, j \in ApprovalsOf(rows, e) :
        i # j => rows[i].approver_id # rows[j].approver_id

\* C6: while an expense has pending rows its status is 'pending'; an
\* approval by a holder of a pending row, on an expense whose rows have
\* distinct approvers and none rejected, removes exactly one pending row,
\* and sets the status to 'approved' in that call exactly when no pending
\* row is left.
C6_SequentialCompletion ==
    /\ [](\A e \in SeqIndices(expenses) :
            PendingOf(expense_approvals, e) # {} => expenses[e].status = "pending")
    /\ [][(last'.op = "process_approval" /\ last'.ret = TRUE) =>
          \A e \in ExpenseIds, a \in Approvers, d \in Decisions :
            (/\ d[1] = "approved"
             /\ PendingFor(expense_approvals, e, a) # {}
             /\ DistinctApprovers(expense_approvals, e)
             /\ RejectedOf(expense_approvals, e) = {}
             /\ ProcessApproval(e, a, d[1], d[2], "none"))
            => /\ Cardinality(PendingOf(expense_approvals', e))
                    = Cardinality(PendingOf(expense_approvals, e)) - 1
               /\ expenses'[e].status =
                    IF PendingOf(expense_approvals', e) = {}
                    THEN "approved" ELSE "pending"]_vars

C6_Witness ==
    /\ last.op = "process_approval"
    /\ last.ret = TRUE
    /\ \E e \in SeqIndices(expenses) :
          /\ expenses[e].status = "approved"
          /\ Cardinality(ApprovalsOf(expense_approvals, e)) >= 2
          /\ DistinctApprovers(expense_approvals, e)
          /\ ApprovedOf(expense_approvals, e) = ApprovalsOf(expense_approvals, e)

\* C7: a successful workflow creation for a new expense appends, all
\* 'pending' and numbered 1, 2, ..., n: first a row for the employee's
\* manager (if manager_id is set), then one row per rule of the company with
\* is_manager_approver = false, in ascending sequence_order of the rules.
C7_BuilderOrdering ==
    [][(last'.op = "submit_expense" /\ last'.ret = TRUE)
       => LET e == last'.expense_id
              m == users[expenses'[e].employee_id].manager_id
              R == {i \in SeqIndices(approval_workflows) :
                       /\ approval_workflows[i].company_id = expenses'[e].company_id
                       /\ ~approval_workflows[i].is_manager_approver}
              off == IF m # NULL THEN 1 ELSE 0
              N == SubSeq(expense_approvals', Len(expense_approvals) + 1,
                          Len(expense_approvals'))
          IN  /\ ApprovalsOf(expense_approvals, e) = {}
              /\ SubSeq(expense_approvals', 1, Len(expense_approvals))
                    = expense_approvals
              /\ Len(N) = off + Cardinality(R)
              /\ \A i \in 1..Len(N) :
                    /\ N[i].expense_id = e
                    /\ N[i].status = "pending"
                    /\ N[i].sequence_order = i
              /\ m # NULL => N[1].approver_id = m
              /\ \E ord \in [1..Cardinality(R) -> R] :
                    /\ \A i, j \in DOMAIN ord : i # j => ord[i] # ord[j]
                    /\ \A i, j \in DOMAIN ord :
                          i < j => approval_workflows[ord[i]].sequence_order
                                     <= approval_workflows[ord[j]].sequence_order
                    /\ \A i \in DOMAIN ord :
                          N[off + i].approver_id
                            = approval_workflows[ord[i]].approver_id]_vars

\* The rules were inserted in descending sequence_order, and the workflow
\* lists the manager, then the rules in ascending sequence_order.
C7_Witness ==
    /\ last.op = "submit_expense"
    /\ last.ret = TRUE
    /\ Len(approval_workflows) = 2
    /\ approval_workflows[1] = PlainRule(1, 2, 2, FALSE)
    /\ approval_workflows[2] = PlainRule(1, 3, 1, FALSE)
    /\ \E i, j, k \in ApprovalsOf(expense_approvals, last.expense_id) :
          /\ i < j /\ j < k
          /\ expense_approvals[i].approver_id = 2
          /\ expense_approvals[j].approver_id = 3
          /\ expense_approvals[k].approver_id = 2

\* C8: a workflow creation that returns False leaves the approval rows as
\* they were before the call.
C8_FailedBuilderWritesNothing ==
    [][(last'.op = "submit_expense" /\ last'.ret = FALSE)
       => expense_approvals' = expense_approvals]_vars

\* An insert raised after earlier inserts of the same call had succeeded.
C8_Witness ==
    /\ last.op = "submit_expense"
    /\ last.ret = FALSE
    /\ last.failed = "later"
    /\ last.expense_id \in SeqIndices(expenses)
    /\ users[expenses[last.expense_id].employee_id].manager_id # NULL
    /\ WorkflowRules(approval_workflows, expenses[last.expense_id].company_id) # {}
    /\ ApprovalsOf(expense_approvals, last.expense_id) = {}

\* C9: a row's status changes only from 'pending' to 'approved' or
\* 'rejected'; a process_approval call changes only rows of its expense, and
\* among them only the caller's rows, apart from the rows the cascade rejects.
C9_RowsDecidedOnce ==
    [][/\ Len(expense_approvals') >= Len(expense_approvals)
       /\ \A i \in SeqIndices(expense_approvals) :
             expense_approvals'[i].status # expense_approvals[i].status
                 => /\ expense_approvals[i].status = "pending"
                    /\ expense_approvals'[i].status \in {"approved", "rejected"}
       /\ (last'.op = "process_approval" /\ expense_approvals' # expense_approvals) =>
          \A e \in ExpenseIds, a \in Approvers, d \in Decisions, f \in ProcessFails :
             ProcessApproval(e, a, d[1], d[2], f)
                 => \A i \in SeqIndices(expense_approvals) :
                        expense_approvals'[i] # expense_approvals[i]
                            => /\ expense_approvals[i].expense_id = e
                               /\ \/ /\ expense_approvals[i].approver_id = a
                                     /\ expense_approvals'[i].status = d[1]
                                  \/ /\ d[1] = "rejected"
                                     /\ expense_approvals'[i].status = "rejected"
                                     /\ expense_approvals'[i].comments
                                          = AutoRejectComment]_vars

\* A reject call was made on an expense whose rows were all approved, and
\* the rows are still approved.
C9_Witness ==
    /\ last.op = "process_approval"
    /\ \E e \in SeqIndices(expenses) :
          /\ expenses[e].status = "rejected"
          /\ ApprovalsOf(expense_approvals, e) # {}
          /\ ApprovedOf(expense_approvals, e) = ApprovalsOf(expense_approvals, e)

\* C10: a process_approval call in which a statement raises returns False
\* and leaves the expenses and the approval rows as they were; a call that
\* decides the caller's row also writes the cascade and the expense status
\* that go with it.
C10_AllOrNothing ==
    [][last'.op = "process_approval"
       => /\ last'.failed # "none" => last'.ret = FALSE
          /\ last'.ret = FALSE => UNCHANGED <<expenses, expense_approvals>>
          /\ \A i \in SeqIndices(expense_approvals) :
                LET e == expense_approvals[i].expense_id
                IN  (/\ expense_approvals[i].status = "pending"
                     /\ expense_approvals'[i].status # "pending"
                     /\ expense_approvals'[i].comments # AutoRejectComment)
                    => /\ expense_approvals'[i].status = "rejected"
                            => /\ expenses'[e].status = "rejected"
                               /\ PendingOf(expense_approvals', e) = {}
                       /\ (/\ expense_approvals'[i].status = "approved"
                            /\ PendingOf(expense_approvals', e) = {})
                            => expenses'[e].status = "approved"]_vars

\* A call raised after it had executed statements, on an expense that still
\* has a pending row.
C10_Witness ==
    /\ last.op = "process_approval"
    /\ last.failed = "later"
    /\ last.ret = FALSE
    /\ \E e \in SeqIndices(expenses) :
          /\ expenses[e].status = "pending"
          /\ PendingOf(expense_approvals, e) # {}

SpecificApproverApproved(e, c) ==
    \E i \in SeqIndices(approval_workflows) :
        /\ approval_workflows[i].company_id = c
        /\ approval_workflows[i].specific_approver_rule = TRUE
        /\ \E r \in ApprovedOf(expense_approvals, e) :
              expense_approvals[r].approver_id = approval_workflows[i].approver_id

\* A rule of the company has a non-null percentage p, the expense has rows,
\* and approved * 100 >= p * total.
PercentageReached(e, c) ==
    \E i \in SeqIndices(approval_workflows) :
        /\ approval_workflows[i].company_id = c
        /\ approval_workflows[i].percentage_rule # NULL
        /\ ApprovalsOf(expense_approvals, e) # {}
        /\ Cardinality(ApprovedOf(expense_approvals, e)) * 100
              >= approval_workflows[i].percentage_rule
                   * Cardinality(ApprovalsOf(expense_approvals, e))

\* C13: a call of check_conditional_approval that completes returns True
\* when a specific-approver rule of the company names an approver who has an
\* approved row of the expense.
C13_SpecificApproverSatisfies ==
    [][last'.op = "check_conditional_approval" =>
       \A e \in ExpenseIds, c \in Companies :
          (/\ SpecificApproverApproved(e, c)
           /\ CheckConditionalApproval(e, c, "none"))
          => last'.ret = TRUE]_vars

\* The evaluator returned True for an expense on which only the
\* specific-approver rule is satisfied: its approver approved, another row
\* is pending and no percentage is reached.
C13_Witness ==
    /\ last.op = "check_conditional_approval"
    /\ last.ret = TRUE
    /\ last.expense_id \in SeqIndices(expenses)
    /\ SpecificApproverApproved(last.expense_id, 1)
    /\ ~PercentageReached(last.expense_id, 1)
    /\ PendingOf(expense_approvals, last.expense_id) # {}

C15_EvaluatorReadOnly ==
    /\ [](\A e \in SeqIndices(expenses) :
            (/\ check_conditional_approval(DB, e, expenses[e].company_id, "none")
             /\ PendingOf(expense_approvals, e) # {})
            => expenses[e].status = "pending")
    /\ [][last'.op = "check_conditional_approval" =>
          /\ UNCHANGED <<users, expenses, expense_approvals, approval_workflows>>
          /\ \A e \in ExpenseIds, c \in Companies, f \in CheckFails :
                (/\ ~SpecificApproverApproved(e, c)
                 /\ ~PercentageReached(e, c)
                 /\ CheckConditionalApproval(e, c, f))
                => last'.ret = FALSE]_vars

\* The evaluator returned True for an expense that is still pending, with a
\* pending row; and the other company has a rule but none that matches.
C15_Witness ==
    /\ last.op = "check_conditional_approval"
    /\ last.ret = TRUE
    /\ last.expense_id \in SeqIndices(expenses)
    /\ expenses[last.expense_id].status = "pending"
    /\ PendingOf(expense_approvals, last.expense_id) # {}
    /\ \E i \in SeqIndices(approval_workflows) :
          approval_workflows[i].company_id = 2

\* --------------------------------------------------- the submission form
\* C20: a submission in a currency other than the company's, for which the
\* rate service gives no rate to the company's currency (convert_currency
\* returns None), creates no expense and no approval row; a submission in
\* the company's currency stores converted_amount = amount and is the same
\* step whatever the rate service answers.
C20_ConversionFailureBlocks ==
    [][last'.op = "submit_expense" =>
       \A u \in Submitters, amount \in Amounts, currency \in Currencies,
          rates \in RateTables, f \in ExpenseFails :
          SubmitExpenseForm(u, amount, currency, rates, f) =>
             LET default == default_currency(users[u].company_id)
             IN  /\ (/\ currency # default
                     /\ default \notin DOMAIN rates)
                    => UNCHANGED <<expenses, expense_approvals>>
                 /\ currency = default =>
                       /\ Len(expenses') > Len(expenses) =>
                             /\ expenses'[Len(expenses')].amount = amount
                             /\ expenses'[Len(expenses')].converted_amount = amount
                       /\ \A other \in RateTables :
                             SubmitExpenseForm(u, amount, currency, other, f)]_vars

\* A submission was stopped by the conversion, after an expense in the
\* company's currency had been stored with its approval row.
C20_Witness ==
    /\ last.op = "submit_expense"
    /\ last.failed = "conversion"
    /\ Len(expenses) = 1
    /\ expenses[1].currency = default_currency(expenses[1].company_id)
    /\ expenses[1].converted_amount = expenses[1].amount
    /\ ApprovalsOf(expense_approvals, 1) # {}

RECURSIVE ManagerAt(_, _)
ManagerAt(u, k) ==
    IF k = 0 THEN u
    ELSE LET m == ManagerAt(u, k - 1)
         IN  IF m \in DOMAIN users THEN users[m].manager_id ELSE NULL

\* C19: following manager_id from a user never returns to that user.
C19_ManagerAcyclic ==
    \A u \in DOMAIN users :
        \A k \in 1..MaxUsers : ManagerAt(u, k) # u

\* ---------------------------------------------------- calls that overlap
\* Connection p runs create_approval_workflow for expense e.
BuildingFor(p, e) ==
    /\ connections[p].op = "create_approval_workflow"
    /\ connections[p].expense_id = e
    /\ ~Finished(p)

C12_ReadersSeeNoneOrAll ==
    /\ [](\A p, q \in Connections, e \in 1..MaxConcurrentExpenses :
            (/\ connections[p].op = "process_approval"
             /\ connections[p].written.live
             /\ BuildingFor(q, e))
            => ApprovalsOf(connections[p].written.expense_approvals, e) = {})
    /\ [][/\ \A e \in 1..MaxConcurrentExpenses :
               ApprovalsOf(expense_approvals', e) # ApprovalsOf(expense_approvals, e)
               => /\ ApprovalsOf(expense_approvals, e) = {}
                  /\ \E p \in Connections :
                        /\ BuildingFor(p, e)
                        /\ connections[p].pc = "commit"
                        /\ connections'[p].pc = "idle"
                        /\ Cardinality(ApprovalsOf(expense_approvals', e))
                             = Len(connections[p].approvers)
          /\ (last'.op = "get_approval_history" /\ UNCHANGED connections)
             => last'.ret =
                   IF \E p \in Connections : BuildingFor(p, last'.expense_id)
                   THEN 0
                   ELSE Cardinality(ApprovalsOf(expense_approvals,
                                                last'.expense_id))]_vars

\* get_approval_history returned no row while the workflow creation of the
\* expense had inserted a row and had another one to insert.
C12_Witness ==
    /\ last.op = "get_approval_history"
    /\ last.ret = 0
    /\ \E p \in Connections :
          /\ BuildingFor(p, last.expense_id)
          /\ connections[p].pc = "insert"
          /\ connections[p].done >= 1
          /\ connections[p].written.live

\* ------------------------------------------------------- the rule store
InRange(percentage_rule) == percentage_rule >= 0 /\ percentage_rule <= 100

C22_NextApproverLowestPending ==
    [][(last'.op = "get_next_approver" /\ last'.failed = "none") =>
       LET e == last'.expense_id
           rows == expense_approvals
       IN  /\ last'.ret = NULL <=> PendingOf(rows, e) = {}
           /\ last'.ret # NULL =>
                 \E i \in PendingOf(rows, e) :
                    /\ rows[i].approver_id = last'.ret
                    /\ \A j \in PendingOf(rows, e) :
                          rows[i].sequence_order <= rows[j].sequence_order]_vars

\* After the approver of step 1 approved, get_next_approver returned the
\* approver of step 2 of the still pending expense, which has a step 3
\* pending too.
C22_Witness ==
    /\ last.op = "get_next_approver"
    /\ last.failed = "none"
    /\ last.expense_id \in SeqIndices(expenses)
    /\ expenses[last.expense_id].status = "pending"
    /\ \E i, j, k \in ApprovalsOf(expense_approvals, last.expense_id) :
          /\ expense_approvals[i].sequence_order = 1
          /\ expense_approvals[i].status = "approved"
          /\ expense_approvals[j].sequence_order = 2
          /\ expense_approvals[j].status = "pending"
          /\ expense_approvals[j].approver_id = last.ret
          /\ expense_approvals[k].sequence_order = 3
          /\ expense_approvals[k].status = "pending"

C25_SubmissionAtomic ==
    [][last'.op = "submit_expense" =>
          (Len(expenses') > Len(expenses) => last'.ret = TRUE)]_vars

\* C26: the tables never hold an expense that has approval rows, none of
\* them pending, and the status 'pending'; and when an approval commits and
\* every row of its expense is then 'approved', the expense is 'approved'.
C26_NoLostFinalApproval ==
    /\ [](\A e \in SeqIndices(expenses) :
            (/\ ApprovalsOf(expense_approvals, e) # {}
             /\ PendingOf(expense_approvals, e) = {})
            => expenses[e].status # "pending")
    /\ [][\A p \in Connections :
             LET e == connections[p].expense_id
             IN  (/\ connections[p].op = "process_approval"
                  /\ connections[p].action = "approved"
                  /\ connections[p].pc = "commit"
                  /\ connections'[p].pc = "idle"
                  /\ last'.ret = TRUE
                  /\ e \in SeqIndices(expenses')
                  /\ ApprovalsOf(expense_approvals', e) # {}
                  /\ ApprovedOf(expense_approvals', e)
                        = ApprovalsOf(expense_approvals', e))
                 => expenses'[e].status = "approved"]_vars

\* Two approvers approved the expense in calls that ran at the same time:
\* the second returned True after the first had returned True while it was
\* running; both rows are approved by their approver, and the expense is
\* approved.
C26_Witness ==
    /\ last.op = "process_approval"
    /\ last.ret = TRUE
    /\ \A p \in Connections : Finished(p)
    /\ \E p \in Connections : connections[p].overlapped
    /\ Len(expenses) = 1
    /\ expenses[1].status = "approved"
    /\ Cardinality(ApprovalsOf(expense_approvals, 1)) = 2
    /\ DistinctApprovers(expense_approvals, 1)
    /\ \A i \in ApprovalsOf(expense_approvals, 1) :
          /\ expense_approvals[i].status = "approved"
          /\ expense_approvals[i].comments = "Quick approval"

\* ------------------------------------------------------------ termination
Terminal(e) ==
    /\ e \in SeqIndices(expenses)
    /\ expenses[e].status \in {"approved", "rejected"}

DBNext == [users |-> users', expenses |-> expenses',
           expense_approvals |-> expense_approvals',
           approval_workflows |-> approval_workflows']

\* C29: no step takes the result of a completing check_conditional_approval
\* call from True to False: for every expense and company for which it
\* returns True before a submission, a decision or a rule creation, it
\* returns True after it.
C29_EvaluatorMonotone ==
    [][\/ UNCHANGED <<expense_approvals, approval_workflows>>
       \/ \A e \in ExpenseIds, c \in Companies :
             check_conditional_approval(DB, e, c, "none")
                => check_conditional_approval(DBNext, e, c, "none")]_vars

\* The evaluator returned True for an expense that had been rejected, with
\* a row rejected by the cascade.
C29_Witness ==
    /\ last.op = "check_conditional_approval"
    /\ last.ret = TRUE
    /\ last.expense_id \in SeqIndices(expenses)
    /\ expenses[last.expense_id].status = "rejected"
    /\ \E i \in RejectedOf(expense_approvals, last.expense_id) :
          expense_approvals[i].comments = AutoRejectComment
    /\ ApprovedOf(expense_approvals, last.expense_id) # {}

====
